---- MODULE Spec2Model ----
(***************************************************************************)
(* Announcements router of the High School Management System API           *)
(* (src/backend/routers/announcements.py): the five handlers over the      *)
(* announcements collection, with the MongoDB query and $set semantics     *)
(* they rely on.                                                           *)
(*                                                                         *)
(* Each handler is an operator from the collection and the request to the  *)
(* collection and the response; an action applies it to a request drawn    *)
(* from the request sets.  Spec serves one request at a time; SpecConc     *)
(* splits update_announcement at its store calls and interleaves two       *)
(* workers.                                                                *)
(*                                                                         *)
(* Strings are sequences of code points ("01" is <<48, 49>>).  A date      *)
(* string is modelled by its day-of-month field: the "YYYY-MM-" prefix is  *)
(* the same in every date of the model and is left out, so "01" stands     *)
(* for "2025-01-01" and "1" for "2025-01-1".  An ObjectId's 24 hex digits  *)
(* are modelled by one decimal digit.  A clock reading is a day number.    *)
(* A list of documents in a response is the set of its documents.  The op  *)
(* field of a response names the handler that answered.                    *)
(***************************************************************************)
EXTENDS Integers, Sequences, FiniteSets, TLC

\* Bounds of the model: the days of the calendar and of the clock, the
\* announcements stored at one time, the ObjectIds ever generated.
MaxDay == 2
MaxDocs == 1
MaxIds == 2

-----------------------------------------------------------------------------
(* Python values of type Optional[str] *)

None == [null |-> TRUE, s |-> <<>>]
Str(s) == [null |-> FALSE, s |-> s]

\* Python truthiness: None and "" are falsy.
Truthy(v) == ~v.null /\ v.s # <<>>

\* a or b
PyOr(a, b) == IF Truthy(a) THEN a ELSE b

\* dict.get(k): None when the key is absent
Get(d, k) == IF k \in DOMAIN d THEN d[k] ELSE None

EmptyDict == [k \in {} |-> None]

\* The digit a code point stands for, and the code point of a digit.
IsDigit(c) == c >= 48 /\ c <= 57

Ord(c) == c - 48

Chr(n) == n + 48

-----------------------------------------------------------------------------
(* datetime *)

\* Whether datetime.strptime(s, "%Y-%m-%d") succeeds (no ValueError): the day
\* field is one or two digits, 1..31; leading zero optional.
ParseOK(s) ==
    /\ Len(s) \in {1, 2}
    /\ \A i \in 1..Len(s) : IsDigit(s[i])
    /\ LET n == IF Len(s) = 1 THEN Ord(s[1]) ELSE 10 * Ord(s[1]) + Ord(s[2])
       IN n >= 1 /\ n <= 31

\* The datetime strptime returns, as a day number.
StrpTime(s) == IF Len(s) = 1 THEN Ord(s[1]) ELSE 10 * Ord(s[1]) + Ord(s[2])

\* datetime.now().strftime("%Y-%m-%d"): zero-padded, fixed width.
StrfTime(now) == <<Chr(now \div 10), Chr(now % 10)>>

\* datetime.now().isoformat(): the date, "T", the time of day.
IsoFormat(now) == StrfTime(now) \o <<84>>

-----------------------------------------------------------------------------
(* MongoDB *)

\* Binary string comparison a <= b.
RECURSIVE StrLte(_, _)
StrLte(a, b) ==
    IF a = <<>> THEN TRUE
    ELSE IF b = <<>> THEN FALSE
    ELSE IF a[1] # b[1] THEN a[1] < b[1]
    ELSE StrLte(Tail(a), Tail(b))

\* {field: {"$lte": v}} and {field: {"$gte": v}} with a string v: only a field
\* that exists and holds a string is compared (null never matches).
MatchLte(doc, field, v) ==
    field \in DOMAIN doc /\ ~doc[field].null /\ StrLte(doc[field].s, v)

MatchGte(doc, field, v) ==
    field \in DOMAIN doc /\ ~doc[field].null /\ StrLte(v, doc[field].s)

\* {field: {"$exists": False}}: the document has no such field (a field
\* holding null exists).
MatchNotExists(doc, field) == field \notin DOMAIN doc

\* {"$set": update_data} applied to a document.
SetFields(doc, update_data) ==
    [k \in DOMAIN doc \cup DOMAIN update_data |->
        IF k \in DOMAIN update_data THEN update_data[k] ELSE doc[k]]

\* ObjectId(s): a well-formed id string, else an exception.
IsObjectId(v) == ~v.null /\ Len(v.s) = 1 /\ IsDigit(v.s[1])

ObjectId(v) == Ord(v.s[1])

\* str(ObjectId)
OidStr(oid) == Str(<<Chr(oid)>>)

\* The document as returned to the caller: "_id" converted to a string.
WithId(doc, oid) == SetFields(doc, [_id |-> OidStr(oid)])

\* teachers_collection: the ids of the known teachers.
Teachers == {<<116>>}

-----------------------------------------------------------------------------
(* State *)

VARIABLES
    store,      \* announcements_collection: ObjectId -> document
    nextId,     \* the next ObjectId insert_one generates
    resp,       \* the response to the last request answered
    inflight    \* the update requests between two store calls, by worker

vars == <<store, nextId, resp, inflight>>

Workers == {1, 2}

Idle == [pc |-> "idle"]

Response(op, status, detail, body) ==
    [op |-> op, status |-> status, detail |-> detail, body |-> body]

HTTPException(op, status, detail) == Response(op, status, detail, {})

Init ==
    /\ store = [i \in {} |-> EmptyDict]
    /\ nextId = 1
    /\ resp = Response("none", 0, "", {})
    /\ inflight = [w \in Workers |-> Idle]

-----------------------------------------------------------------------------
(* GET /announcements *)

\* ActiveQuery with "$gt" for "$gte": the day of expiration is left out.
ActiveQueryBeforeExpiry(doc, today) ==
    /\ \/ MatchNotExists(doc, "start_date")
       \/ MatchLte(doc, "start_date", today)
    /\ MatchGte(doc, "expiration_date", today)
    /\ doc.expiration_date.s # today

\* The query of get_active_announcements on one document.
ActiveQuery(doc, today) ==
    /\ \/ MatchNotExists(doc, "start_date")
       \/ MatchLte(doc, "start_date", today)
    /\ MatchGte(doc, "expiration_date", today)

get_active_announcements(S, now) ==
    LET today == StrfTime(now)
    IN Response("listActive", 200, "",
                {WithId(S[i], i) : i \in {j \in DOMAIN S : ActiveQuery(S[j], today)}})

GetActive(now) ==
    /\ resp' = get_active_announcements(store, now)
    /\ UNCHANGED <<store, nextId, inflight>>

-----------------------------------------------------------------------------
(* Authentication, shared by the four other handlers *)

\* The response the check ends the request with, or OK.
OK == Response("ok", 0, "", {})

\* Authenticate without the lookup in teachers_collection.
AuthenticateNoLookup(op, username) ==
    IF ~Truthy(username) THEN HTTPException(op, 401, "Authentication required")
    ELSE OK

Authenticate(op, username) ==
    IF ~Truthy(username) THEN HTTPException(op, 401, "Authentication required")
    ELSE IF username.s \notin Teachers THEN HTTPException(op, 401, "Invalid credentials")
    ELSE OK

\* What a handler leaves behind: the collection, the id generator, the response.
Result(S, n, r) == [store |-> S, nextId |-> n, resp |-> r]

-----------------------------------------------------------------------------
(* GET /announcements/all *)

get_all_announcements(S, username) ==
    LET auth == Authenticate("listAll", username)
    IN IF auth # OK THEN auth
       ELSE Response("listAll", 200, "", {WithId(S[i], i) : i \in DOMAIN S})

GetAll(username) ==
    /\ resp' = get_all_announcements(store, username)
    /\ UNCHANGED <<store, nextId, inflight>>

-----------------------------------------------------------------------------
(* POST /announcements *)

\* insert_one: the document is stored under a newly generated ObjectId.
InsertOne(S, n, doc) == [i \in DOMAIN S \cup {n} |-> IF i = n THEN doc ELSE S[i]]

create_announcement(S, n, title, message, expiration_date, start_date, username, now) ==
    LET auth == Authenticate("create", username)
        announcement ==
            [title |-> title,
             message |-> message,
             expiration_date |-> expiration_date,
             start_date |-> start_date,
             created_by |-> username,
             created_at |-> Str(IsoFormat(now))]
    IN IF auth # OK THEN Result(S, n, auth)
       ELSE IF \/ ~ParseOK(expiration_date.s)
               \/ Truthy(start_date) /\ ~ParseOK(start_date.s)
       THEN Result(S, n, HTTPException("create", 400,
                                       "Invalid date format. Use YYYY-MM-DD"))
       ELSE IF Truthy(start_date)
               /\ StrpTime(start_date.s) > StrpTime(expiration_date.s)
       THEN Result(S, n, HTTPException("create", 400,
                                       "Start date cannot be after expiration date"))
       ELSE Result(InsertOne(S, n, announcement), n + 1,
                   Response("create", 200, "", {WithId(announcement, n)}))

Create(title, message, expiration_date, start_date, username, now) ==
    LET r == create_announcement(store, nextId, title, message, expiration_date,
                                 start_date, username, now)
    IN /\ r.nextId <= MaxIds + 1
       /\ Cardinality(DOMAIN r.store) <= MaxDocs
       /\ store' = r.store
       /\ nextId' = r.nextId
       /\ resp' = r.resp
       /\ UNCHANGED inflight

-----------------------------------------------------------------------------
(* PUT /announcements/{announcement_id} *)

\* Lines 124-142: authentication, ObjectId validation, find_one.  The response
\* that ends the request, or OK when the announcement was read.
UpdateRead(S, announcement_id, username) ==
    LET auth == Authenticate("update", username)
    IN IF auth # OK THEN auth
       ELSE IF ~IsObjectId(announcement_id)
       THEN HTTPException("update", 400, "Invalid announcement ID")
       ELSE IF ObjectId(announcement_id) \notin DOMAIN S
       THEN HTTPException("update", 404, "Announcement not found")
       ELSE OK

\* Lines 145-171: update_data before the timestamp.
BuildUpdateData(title, message, expiration_date, start_date) ==
    (IF Truthy(title) THEN [title |-> title] ELSE EmptyDict)
    @@ (IF Truthy(message) THEN [message |-> message] ELSE EmptyDict)
    @@ (IF Truthy(expiration_date)
        THEN [expiration_date |-> expiration_date] ELSE EmptyDict)
    @@ (IF start_date.null THEN EmptyDict
        ELSE [start_date |-> IF Truthy(start_date) THEN start_date ELSE None])

\* RangeCheckFails run only when the request supplies both dates.
RangeCheckBothSupplied(announcement, update_data) ==
    /\ "start_date" \in DOMAIN update_data /\ "expiration_date" \in DOMAIN update_data
    /\ LET start == update_data["start_date"]
           exp == update_data["expiration_date"]
       IN /\ Truthy(start) /\ Truthy(exp)
          /\ ParseOK(start.s) /\ ParseOK(exp.s)
          /\ StrpTime(start.s) > StrpTime(exp.s)

\* RangeCheckFails comparing the date strings instead of the parsed dates.
RangeCheckAsStrings(announcement, update_data) ==
    /\ "start_date" \in DOMAIN update_data \/ "expiration_date" \in DOMAIN update_data
    /\ LET start == PyOr(Get(update_data, "start_date"), Get(announcement, "start_date"))
           exp == PyOr(Get(update_data, "expiration_date"),
                       Get(announcement, "expiration_date"))
       IN /\ Truthy(start) /\ Truthy(exp)
          /\ ~StrLte(start.s, exp.s)

\* Lines 173-188: whether the range check raises, for the document read.
RangeCheckFails(announcement, update_data) ==
    /\ "start_date" \in DOMAIN update_data \/ "expiration_date" \in DOMAIN update_data
    /\ LET start == PyOr(Get(update_data, "start_date"), Get(announcement, "start_date"))
           exp == PyOr(Get(update_data, "expiration_date"),
                       Get(announcement, "expiration_date"))
       IN /\ Truthy(start) /\ Truthy(exp)
          /\ ParseOK(start.s) /\ ParseOK(exp.s)
          /\ StrpTime(start.s) > StrpTime(exp.s)

\* Lines 144-190: the response that ends the request, or OK.
UpdateValidate(announcement, title, message, expiration_date, start_date) ==
    IF Truthy(expiration_date) /\ ~ParseOK(expiration_date.s)
    THEN HTTPException("update", 400, "Invalid expiration_date format. Use YYYY-MM-DD")
    ELSE IF Truthy(start_date) /\ ~ParseOK(start_date.s)
    THEN HTTPException("update", 400, "Invalid start_date format. Use YYYY-MM-DD")
    ELSE IF RangeCheckFails(announcement,
                            BuildUpdateData(title, message, expiration_date, start_date))
    THEN HTTPException("update", 400, "Start date cannot be after expiration date")
    ELSE OK

\* Line 190: the update stamped with the time of the request.
Stamped(update_data, now) ==
    update_data @@ [updated_at |-> Str(IsoFormat(now))]

\* update_one({"_id": oid}, {"$set": update_data}): the collection afterwards.
UpdateOne(S, oid, update_data) ==
    IF oid \in DOMAIN S
    THEN [S EXCEPT ![oid] = SetFields(S[oid], update_data)]
    ELSE S

\* ModifiedCount taken from matched_count: documents the filter matched.
MatchedCount(S, oid, update_data) == IF oid \in DOMAIN S THEN 1 ELSE 0

\* result.modified_count: documents the write actually changed.
ModifiedCount(S, oid, update_data) ==
    IF oid \in DOMAIN S /\ SetFields(S[oid], update_data) # S[oid] THEN 1 ELSE 0

\* Lines 197-204: the response after update_one.
UpdateFinish(S, oid, modified_count) ==
    IF modified_count = 0
    THEN HTTPException("update", 500, "Failed to update announcement")
    ELSE IF oid \notin DOMAIN S
    THEN HTTPException("update", 500, "Internal Server Error")
    ELSE Response("update", 200, "", {WithId(S[oid], oid)})

update_announcement(S, n, announcement_id, title, message, expiration_date, start_date, username, now) ==
    LET read == UpdateRead(S, announcement_id, username)
        oid == ObjectId(announcement_id)
        valid == UpdateValidate(S[oid], title, message, expiration_date, start_date)
        update_data ==
            Stamped(BuildUpdateData(title, message, expiration_date, start_date), now)
        after == UpdateOne(S, oid, update_data)
    IN IF read # OK THEN Result(S, n, read)
       ELSE IF valid # OK THEN Result(S, n, valid)
       ELSE Result(after, n,
                   UpdateFinish(after, oid, ModifiedCount(S, oid, update_data)))

Update(announcement_id, title, message, expiration_date, start_date, username, now) ==
    LET r == update_announcement(store, nextId, announcement_id, title, message,
                                 expiration_date, start_date, username, now)
    IN /\ store' = r.store
       /\ nextId' = r.nextId
       /\ resp' = r.resp
       /\ UNCHANGED inflight

-----------------------------------------------------------------------------
(* DELETE /announcements/{announcement_id} *)

\* delete_one({"_id": oid}): the collection afterwards.
DeleteOne(S, oid) == [i \in DOMAIN S \ {oid} |-> S[i]]

\* DeletedCount taken from the acknowledgement of the write.
DeletedCountAcknowledged(S, oid) == 1

\* result.deleted_count: documents the delete removed.
DeletedCount(S, oid) == IF oid \in DOMAIN S THEN 1 ELSE 0

delete_announcement(S, n, announcement_id, username) ==
    LET auth == Authenticate("delete", username)
        oid == ObjectId(announcement_id)
    IN IF auth # OK THEN Result(S, n, auth)
       ELSE IF ~IsObjectId(announcement_id)
       THEN Result(S, n, HTTPException("delete", 400, "Invalid announcement ID"))
       ELSE IF DeletedCount(S, oid) = 0
       THEN Result(DeleteOne(S, oid), n,
                   HTTPException("delete", 404, "Announcement not found"))
       ELSE Result(DeleteOne(S, oid), n,
                   Response("delete", 200, "Announcement deleted successfully", {}))

Delete(announcement_id, username) ==
    LET r == delete_announcement(store, nextId, announcement_id, username)
    IN /\ store' = r.store
       /\ nextId' = r.nextId
       /\ resp' = r.resp
       /\ UNCHANGED inflight

-----------------------------------------------------------------------------------------------------------------------------------------------------
(* Requests *)

Clock == 1..MaxDay

\* Date strings a caller may send: ISO dates, a date without its leading
\* zero ("1"), the empty string, and a string that is no date ("x").
IsoDates == {StrfTime(d) : d \in 1..MaxDay}

DateArgs == {Str(s) : s \in IsoDates \cup {<<49>>, <<>>, <<120>>}}

\* The teacher of the model, the caller of the authenticated requests.
Teacher == Str(<<116>>)

Usernames == {None, Teacher, Str(<<120>>)}

Titles == {Str(<<97>>)}

Messages == {Str(<<109>>)}

\* Announcement ids a caller may send: every id the store can generate, and
\* a malformed one.
IdArgs == {OidStr(i) : i \in 1..MaxIds} \cup {Str(<<122>>)}

\* The values drawn for a parameter: a parameter the handler returns before
\* reading changes nothing and is drawn once, as None.
ReadIf(read, values) == IF read THEN values ELSE {None}

NextGetActive == \E now \in Clock : GetActive(now)

NextGetAll == \E username \in Usernames : GetAll(username)

NextCreate ==
    \E username \in Usernames :
      LET authed == Authenticate("create", username) = OK IN
      \E title \in ReadIf(authed, Titles), message \in ReadIf(authed, Messages),
         expiration_date \in ReadIf(authed, DateArgs),
         start_date \in ReadIf(authed, DateArgs \cup {None}) :
        LET inserts == create_announcement(store, nextId, title, message,
                           expiration_date, start_date, username, 1).resp.status = 200
        IN \E now \in IF inserts THEN Clock ELSE {1} :
             Create(title, message, expiration_date, start_date, username, now)

NextUpdate ==
    \E username \in Usernames :
      \E announcement_id \in ReadIf(Authenticate("update", username) = OK, IdArgs) :
        LET read == UpdateRead(store, announcement_id, username) = OK IN
        \E title \in ReadIf(read, Titles \cup {None}),
           message \in ReadIf(read, Messages \cup {None}),
           expiration_date \in ReadIf(read, DateArgs \cup {None}),
           start_date \in ReadIf(read, DateArgs \cup {None}) :
          LET writes == read /\ UpdateValidate(store[ObjectId(announcement_id)], title,
                                    message, expiration_date, start_date) = OK
          IN \E now \in IF writes THEN Clock ELSE {1} :
               Update(announcement_id, title, message, expiration_date, start_date,
                      username, now)

NextDelete ==
    \E username \in Usernames :
      \E announcement_id \in ReadIf(Authenticate("delete", username) = OK, IdArgs) :
        Delete(announcement_id, username)

Next ==
    \/ NextGetActive
    \/ NextGetAll
    \/ NextCreate
    \/ NextUpdate
    \/ NextDelete

Spec == Init /\ [][Next]_vars

-----------------------------------------------------------------------------
(* Update requests served concurrently: each worker runs update_announcement
   one store call at a time, and the calls of different workers interleave. *)

\* Lines 124-190: authentication, ObjectId validation, find_one, and the
\* validation of the request against the document read.  The request ends
\* here with an error response, or goes on to update_one with its
\* update_data.
UpdateStart(w, announcement_id, title, message, expiration_date, start_date, username, now) ==
    LET read == UpdateRead(store, announcement_id, username)
        oid == ObjectId(announcement_id)
        valid == UpdateValidate(store[oid], title, message, expiration_date, start_date)
    IN /\ inflight[w].pc = "idle"
       /\ IF read # OK
          THEN resp' = read /\ UNCHANGED inflight
          ELSE IF valid # OK
          THEN resp' = valid /\ UNCHANGED inflight
          ELSE /\ inflight' =
                    [inflight EXCEPT ![w] =
                        [pc |-> "validated", oid |-> oid,
                         update_data |->
                            Stamped(BuildUpdateData(title, message, expiration_date,
                                                    start_date), now)]]
               /\ UNCHANGED resp
       /\ UNCHANGED <<store, nextId>>

\* Lines 192-195: update_one.
UpdateWrite(w) ==
    /\ inflight[w].pc = "validated"
    /\ store' = UpdateOne(store, inflight[w].oid, inflight[w].update_data)
    /\ inflight' =
          [inflight EXCEPT ![w] =
              [pc |-> "written", oid |-> inflight[w].oid,
               modified_count |->
                  ModifiedCount(store, inflight[w].oid, inflight[w].update_data)]]
    /\ UNCHANGED <<nextId, resp>>

\* Lines 197-204: the check of modified_count, find_one, the response.
UpdateReturn(w) ==
    /\ inflight[w].pc = "written"
    /\ resp' = UpdateFinish(store, inflight[w].oid, inflight[w].modified_count)
    /\ inflight' = [inflight EXCEPT ![w] = Idle]
    /\ UNCHANGED <<store, nextId>>

\* The requests of the concurrent runs carry ISO dates, are served at one
\* clock reading, and come from the teacher, but for the updates, which
\* any caller may send.
ConcDates == {Str(s) : s \in IsoDates}

ConcClock == {1}

ConcCreate ==
    \E expiration_date \in ConcDates, start_date \in ConcDates \cup {None},
       now \in ConcClock :
        \E title \in Titles, message \in Messages :
            Create(title, message, expiration_date, start_date, Teacher, now)

ConcUpdateStart ==
    \E w \in Workers, username \in Usernames :
      \E announcement_id \in ReadIf(Authenticate("update", username) = OK, IdArgs) :
        LET read == UpdateRead(store, announcement_id, username) = OK IN
        \E expiration_date \in ReadIf(read, ConcDates \cup {None}),
           start_date \in ReadIf(read, ConcDates \cup {None}), now \in ConcClock :
            UpdateStart(w, announcement_id, None, None, expiration_date, start_date,
                        username, now)

ConcDelete == \E announcement_id \in IdArgs : Delete(announcement_id, Teacher)

ConcUpdateWrite == \E w \in Workers : UpdateWrite(w)

ConcUpdateReturn == \E w \in Workers : UpdateReturn(w)

NextConc ==
    \/ ConcCreate
    \/ ConcDelete
    \/ ConcUpdateStart
    \/ ConcUpdateWrite
    \/ ConcUpdateReturn

SpecConc == Init /\ [][NextConc]_vars

-----------------------------------------------------------------------------
(* Properties *)

\* A date string in the fixed-width form YYYY-MM-DD.
IsIso(v) == ~v.null /\ Len(v.s) = 2 /\ ParseOK(v.s)

\* Whether listActive, asked on day today, returns announcement i of S.
Listed(S, i, today) ==
    \E doc \in get_active_announcements(S, today).body : doc._id = OidStr(i)

\* C1: an announcement created with start_date omitted and expiration_date D
\* is returned by listActive if and only if today <= D.
C1_OmittedStartVisibleUntilExpiry ==
    \A i \in DOMAIN store :
        (/\ resp = Response("create", 200, "", {WithId(store[i], i)})
         /\ store[i].start_date = None
         /\ IsIso(store[i].expiration_date))
        => \A today \in Clock :
              Listed(store, i, today) <=> today <= StrpTime(store[i].expiration_date.s)

\* C2: a stored announcement with start_date D1 and expiration_date D2,
\* D1 <= D2, is returned by listActive if and only if D1 <= today <= D2, and
\* listActive leaves the store as it was.
C2_VisibleWithinRange ==
    [][/\ \A i \in DOMAIN store, today \in Clock :
            (/\ IsIso(store[i].start_date)
             /\ IsIso(store[i].expiration_date)
             /\ StrpTime(store[i].start_date.s) <= StrpTime(store[i].expiration_date.s))
            => (WithId(store[i], i) \in get_active_announcements(store, today).body
                <=> /\ StrpTime(store[i].start_date.s) <= today
                    /\ today <= StrpTime(store[i].expiration_date.s))
       /\ resp'.op = "listActive" => store' = store /\ nextId' = nextId]_vars

\* listActive has returned an announcement that has a start date.
C2_Witness ==
    /\ resp.op = "listActive"
    /\ \E doc \in resp.body : IsIso(doc.start_date) /\ IsIso(doc.expiration_date)

\* C3: after an update that clears start_date the announcement is returned
\* by listActive if and only if today <= its expiration_date.
C3_ClearedStartVisibleUntilExpiry ==
    [][\A i \in DOMAIN store :
         (/\ resp'.op = "update" /\ resp'.status = 200
          /\ i \in DOMAIN store'
          /\ Truthy(store[i].start_date)
          /\ store'[i].start_date = None
          /\ IsIso(store'[i].expiration_date))
         => \A today \in Clock :
               Listed(store', i, today)
               <=> today <= StrpTime(store'[i].expiration_date.s)]_vars

\* C4: every stored announcement that has both dates set has
\* start_date <= expiration_date.
C4_StoredRangeOrdered ==
    \A i \in DOMAIN store :
        /\ ParseOK(store[i].expiration_date.s)
        /\ Truthy(store[i].start_date)
           => /\ ParseOK(store[i].start_date.s)
              /\ StrpTime(store[i].start_date.s) <= StrpTime(store[i].expiration_date.s)

\* An update has been applied to an announcement that has both dates set,
\* the start date before the expiration date.
C4_Witness ==
    /\ resp.op = "update" /\ resp.status = 200
    /\ \E doc \in resp.body :
          /\ Truthy(doc.start_date)
          /\ StrpTime(doc.start_date.s) < StrpTime(doc.expiration_date.s)

InvalidDateRange(op) ==
    HTTPException(op, 400, "Start date cannot be after expiration date")

\* The start date an update leaves: the stored one when start_date is
\* omitted, none when it is cleared, else the one supplied.
EffectiveStart(doc, start_date) ==
    IF start_date.null THEN doc.start_date
    ELSE IF start_date.s = <<>> THEN None
    ELSE start_date

\* The expiration date an update leaves: the stored one when
\* expiration_date is omitted, else the one supplied.
EffectiveExp(doc, expiration_date) ==
    IF Truthy(expiration_date) THEN expiration_date ELSE doc.expiration_date

\* Whether the dates an update leaves are out of order.
LeavesStartAfterExp(doc, expiration_date, start_date) ==
    LET start == EffectiveStart(doc, start_date)
        exp == EffectiveExp(doc, expiration_date)
    IN /\ Truthy(start) /\ ParseOK(start.s) /\ ParseOK(exp.s)
       /\ StrpTime(start.s) > StrpTime(exp.s)

\* A date parameter that is omitted, empty, or a date the handler accepts.
WellFormed(v) == Truthy(v) => ParseOK(v.s)

\* C5: a create whose start_date is after its expiration_date, and an update
\* that would leave start_date after expiration_date, fail with
\* InvalidDateRange and leave the store as it was.
C5_OutOfOrderRejected ==
    /\ \A title \in Titles, message \in Messages, expiration_date \in DateArgs,
          start_date \in DateArgs, now \in Clock :
          (/\ ParseOK(expiration_date.s) /\ Truthy(start_date) /\ ParseOK(start_date.s)
           /\ StrpTime(start_date.s) > StrpTime(expiration_date.s))
          => create_announcement(store, nextId, title, message, expiration_date,
                                 start_date, Teacher, now)
             = Result(store, nextId, InvalidDateRange("create"))
    /\ \A i \in DOMAIN store, title \in Titles \cup {None},
          message \in Messages \cup {None}, expiration_date \in DateArgs \cup {None},
          start_date \in DateArgs \cup {None}, now \in Clock :
          (/\ WellFormed(expiration_date) /\ WellFormed(start_date)
           /\ LeavesStartAfterExp(store[i], expiration_date, start_date))
          => update_announcement(store, nextId, OidStr(i), title, message,
                                 expiration_date, start_date, Teacher, now)
             = Result(store, nextId, InvalidDateRange("update"))

\* An update of a stored announcement has been rejected for its date range.
C5_Witness ==
    /\ resp = InvalidDateRange("update")
    /\ DOMAIN store # {}

\* Callers that give no identifier, and one that is no teacher.
Unauthenticated == HTTPException("", 401, "Authentication required")

InvalidCredentials == HTTPException("", 401, "Invalid credentials")

AuthError(op, username) ==
    [IF Truthy(username) THEN InvalidCredentials ELSE Unauthenticated EXCEPT !.op = op]

\* C6: listAll, create, update and delete fail with Unauthenticated without
\* a caller identifier and with InvalidCredentials for an identifier that is
\* no teacher, whatever the other arguments, and leave the store as it was.
C6_AuthBeforeAnything ==
    \A username \in {None, Str(<<>>), Str(<<120>>)} :
        /\ get_all_announcements(store, username) = AuthError("listAll", username)
        /\ \A title \in Titles, message \in Messages, expiration_date \in DateArgs,
              start_date \in DateArgs \cup {None}, now \in Clock :
              create_announcement(store, nextId, title, message, expiration_date,
                                  start_date, username, now)
              = Result(store, nextId, AuthError("create", username))
        /\ \A announcement_id \in IdArgs, title \in Titles \cup {None},
              message \in Messages \cup {None}, expiration_date \in DateArgs \cup {None},
              start_date \in DateArgs \cup {None}, now \in Clock :
              update_announcement(store, nextId, announcement_id, title, message,
                                  expiration_date, start_date, username, now)
              = Result(store, nextId, AuthError("update", username))
        /\ \A announcement_id \in IdArgs :
              delete_announcement(store, nextId, announcement_id, username)
              = Result(store, nextId, AuthError("delete", username))

\* A caller that is no teacher has been refused the delete of a stored
\* announcement.
C6_Witness ==
    /\ resp = AuthError("delete", Str(<<120>>))
    /\ DOMAIN store # {}

\* C7: update fails with InvalidDateRange only when the effective start_date
\* is set and after the effective expiration_date; an update that clears
\* start_date is never rejected so.
C7_RangeCheckOnEffectiveValues ==
    \A i \in DOMAIN store, title \in Titles \cup {None},
       message \in Messages \cup {None}, expiration_date \in DateArgs \cup {None},
       start_date \in DateArgs \cup {None}, now \in Clock :
       update_announcement(store, nextId, OidStr(i), title, message, expiration_date,
                           start_date, Teacher, now).resp = InvalidDateRange("update")
       => LeavesStartAfterExp(store[i], expiration_date, start_date)

\* A document without its server-stamped updated_at.
ButUpdatedAt(doc) == [k \in DOMAIN doc \ {"updated_at"} |-> doc[k]]

SameButUpdatedAt(S, T) ==
    DOMAIN S = DOMAIN T /\ \A i \in DOMAIN S : ButUpdatedAt(S[i]) = ButUpdatedAt(T[i])

UpdateFailed == HTTPException("update", 500, "Failed to update announcement")

\* C8: the same update issued twice in a row leaves the store as issuing it
\* once does, apart from updated_at, and the second call succeeds as the
\* first did.
C8_UpdateTwiceSameOutcome ==
    \A i \in DOMAIN store, title \in Titles \cup {None},
       message \in Messages \cup {None}, expiration_date \in DateArgs \cup {None},
       start_date \in DateArgs \cup {None}, now1 \in Clock, now2 \in Clock :
       LET once == update_announcement(store, nextId, OidStr(i), title, message,
                                       expiration_date, start_date, Teacher, now1)
           twice == update_announcement(once.store, once.nextId, OidStr(i), title,
                                        message, expiration_date, start_date, Teacher,
                                        now2)
       IN once.resp.status = 200
          => /\ SameButUpdatedAt(twice.store, once.store)
             /\ twice.resp.status = 200

\* C8 as amended: the same update issued twice in a row leaves the store as
\* issuing it once does, apart from updated_at; the second call succeeds
\* when its timestamp differs from the first call's, and otherwise fails
\* with UpdateFailed and changes nothing.
C8_UpdateTwiceSameStore ==
    \A i \in DOMAIN store, title \in Titles \cup {None},
       message \in Messages \cup {None}, expiration_date \in DateArgs \cup {None},
       start_date \in DateArgs \cup {None}, now1 \in Clock, now2 \in Clock :
       LET once == update_announcement(store, nextId, OidStr(i), title, message,
                                       expiration_date, start_date, Teacher, now1)
           twice == update_announcement(once.store, once.nextId, OidStr(i), title,
                                        message, expiration_date, start_date, Teacher,
                                        now2)
       IN once.resp.status = 200
          => /\ SameButUpdatedAt(twice.store, once.store)
             /\ IF IsoFormat(now2) # IsoFormat(now1)
                THEN /\ twice.resp = Response("update", 200, "",
                                              {WithId(twice.store[i], i)})
                     /\ twice.store[i].updated_at = Str(IsoFormat(now2))
                ELSE /\ twice.resp = UpdateFailed
                     /\ twice.store = once.store

\* An update has failed with UpdateFailed on a stored announcement.
C8_Witness ==
    /\ resp = UpdateFailed
    /\ \E i \in DOMAIN store : "updated_at" \in DOMAIN store[i]

\* The ids of the announcements deleted so far.
Deleted(S, n) == (1..(n - 1)) \ DOMAIN S

NotFound(op) == HTTPException(op, 404, "Announcement not found")

\* No announcement with id i is returned by listActive or listAll, and a
\* delete of i fails with NotFound and changes nothing.
Gone(S, n, i) ==
    /\ \A today \in Clock : ~Listed(S, i, today)
    /\ \A doc \in get_all_announcements(S, Teacher).body : doc._id # OidStr(i)
    /\ delete_announcement(S, n, OidStr(i), Teacher) = Result(S, n, NotFound("delete"))

\* C9: a delete of an id that matches no stored announcement fails with
\* NotFound and leaves the store as it was; a successful delete removes the
\* announcement, which is then returned by no listing, and every later
\* delete of its id fails with NotFound whatever create and update calls
\* happen in between.
C9_DeletedStaysDeleted ==
    [][/\ \A i \in (1..(MaxIds + 1)) \ DOMAIN store : Gone(store, nextId, i)
       /\ resp'.op = "delete" /\ resp'.status = 200
          => \E i \in DOMAIN store : DOMAIN store' = DOMAIN store \ {i}
       /\ Deleted(store, nextId) \subseteq Deleted(store', nextId')
       /\ \A i \in Deleted(store', nextId') : Gone(store', nextId', i)]_vars

\* A delete of an id deleted before has failed with NotFound, after another
\* announcement was created and updated.
C9_Witness ==
    /\ resp = NotFound("delete")
    /\ Deleted(store, nextId) # {}
    /\ \E i \in DOMAIN store : "updated_at" \in DOMAIN store[i]

\* C10: when two update requests on the same announcement interleave at
\* the granularity of store calls, the stored announcement still has
\* start_date <= expiration_date in every reachable state.
C10_RangeOrderedUnderInterleaving ==
    \A i \in DOMAIN store :
        (Truthy(store[i].start_date) /\ Truthy(store[i].expiration_date))
        => StrpTime(store[i].start_date.s) <= StrpTime(store[i].expiration_date.s)

====
